---- MODULE Spec2Model ----
(***************************************************************************)
(* The real-time feed connection manager of MarketVision-Pro: the React    *)
(* hook useWebSocket (frontend/src/hooks/useWebSocket.ts).                  *)
(*                                                                         *)
(* The hook's state is its useState cells, its useRef cells, the browser   *)
(* objects it creates (WebSocket objects, timers, health-probe fetches)    *)
(* and React's bookkeeping of its two effects.  Every handler of the hook  *)
(* is a function from a snapshot of that state to the next snapshot, and   *)
(* every action of the model runs one browser task: one callback and the   *)
(* handlers it calls.                                                      *)
(*                                                                         *)
(* A timer guarantees only that its callback does not run before its       *)
(* delay has passed (a busy or throttled page runs it later), so a pending *)
(* timer may fire at any step and no delay is compared with another.       *)
(***************************************************************************)
EXTENDS Integers, Sequences, FiniteSets, TLC

\* ------------------------------------------------------------- bounds
MaxSockets == 2      \* WebSocket objects that are not yet closed, at once
MaxProbes == 2       \* health probes in flight at once
MaxLeak == 1         \* timers pending with no ref holding them, all kinds
MaxNow == 1          \* last value of the clock

\* ------------------------------------------------- program constants
maxReconnectAttempts == 2
BackoffBase == 500
BackoffCap == 3000
MockRange == 30
MockFloor == 5

Symbols == {"X", "Y"}
SockIds == 1..MaxSockets
TimerKinds == {"probe", "connect", "reconnect", "ping", "mock"}
\* Math.random() is drawn as k / RandomSteps for these k.
RandomSteps == 30
RandomDraws == {0, RandomSteps - 1}
\* the message types the server may send, an unknown type and a payload
\* JSON.parse rejects
Inbound == {"pong", "market_data_update", "subscription_response",
            "unsubscription_response", "unknown", "malformed"}

VARIABLES
    isConnected, latency, connectionStatus, isMockMode,   \* useState
    wsRef,                  \* the socket wsRef.current holds; 0: null or a closed
                            \* socket (the hook reads only its readyState and
                            \* calls close() on it: the two are alike to it)
    reconnectTimeoutRef,    \* TRUE: the timer the ref holds is pending
    pingIntervalRef,        \* the socket whose ping interval the ref holds, 0: none pending
    lastPingRef,
    subscriptionsRef,
    reconnectAttemptsRef,
    mockLatencyRef,         \* TRUE: the interval the ref holds is pending
    connectionTimeoutRef,   \* TRUE: the timer the ref holds is pending
    socks,                  \* each WebSocket object's state
    pingOn,                 \* sockets a pending ping interval is bound to
    probes,                 \* health probes in flight, each with its abort timer
    leaked,                 \* per kind: pending timers no ref holds
    fallbackTimeout,        \* TRUE: the auto-connect effect's timer is pending
    mounted,                \* the component using the hook is mounted
    rendered,               \* isConnected, isMockMode of the last render
    now,                    \* Date.now()
    reconnectDelay,         \* delay of the last reconnect timer armed
    wire,                   \* what the last task sent: <<[sock, type, symbol]>>
    \* What an observer of the hook records; the hook reads none of it.
    watch,                  \* which of drops, link, calls and repeats this run
                            \* records
    drops,                  \* abnormal closes since the last open, up to
                            \* maxReconnectAttempts
    link,                   \* "none"; "up": a transport has opened; "dropped":
                            \* an open one has closed abnormally; "again": one
                            \* has opened after that
    lastCall,               \* per symbol: the last of subscribe(symbol) and
                            \* unsubscribe(symbol) called, "none" before both;
                            \* "subscribe unsent": subscribe(symbol), called
                            \* when the transport was not open
                            \* (watching told: "subscribe" if the last frame
                            \* about the symbol sent on the socket wsRef
                            \* holds is a subscribe;
                            \* watching repeats: "repeated" for the symbol
                            \* of the last call, if that call asked for what
                            \* the set already said)
    awaiting                \* sockets with a ping sent and no pong since

vars == <<isConnected, latency, connectionStatus, isMockMode, wsRef,
          reconnectTimeoutRef, pingIntervalRef, lastPingRef, subscriptionsRef,
          reconnectAttemptsRef, mockLatencyRef, connectionTimeoutRef, socks,
          pingOn, probes, leaked, fallbackTimeout, mounted, rendered,
          now, reconnectDelay, wire, watch, drops, link, lastCall, awaiting>>

\* The state as one record: what a handler reads and returns.
Cur ==
    [isConnected |-> isConnected, latency |-> latency,
     connectionStatus |-> connectionStatus, isMockMode |-> isMockMode,
     wsRef |-> wsRef, reconnectTimeoutRef |-> reconnectTimeoutRef,
     pingIntervalRef |-> pingIntervalRef, lastPingRef |-> lastPingRef,
     subscriptionsRef |-> subscriptionsRef,
     reconnectAttemptsRef |-> reconnectAttemptsRef,
     mockLatencyRef |-> mockLatencyRef,
     connectionTimeoutRef |-> connectionTimeoutRef, socks |-> socks,
     pingOn |-> pingOn, probes |-> probes, leaked |-> leaked,
     fallbackTimeout |-> fallbackTimeout, mounted |-> mounted,
     rendered |-> rendered,
     now |-> now, reconnectDelay |-> reconnectDelay, wire |-> <<>>,
     watch |-> watch, drops |-> drops, link |-> link, lastCall |-> lastCall,
     awaiting |-> awaiting]

Store(r) ==
    /\ isConnected' = r.isConnected
    /\ latency' = r.latency
    /\ connectionStatus' = r.connectionStatus
    /\ isMockMode' = r.isMockMode
    /\ wsRef' = r.wsRef
    /\ reconnectTimeoutRef' = r.reconnectTimeoutRef
    /\ pingIntervalRef' = r.pingIntervalRef
    /\ lastPingRef' = r.lastPingRef
    /\ subscriptionsRef' = r.subscriptionsRef
    /\ reconnectAttemptsRef' = r.reconnectAttemptsRef
    /\ mockLatencyRef' = r.mockLatencyRef
    /\ connectionTimeoutRef' = r.connectionTimeoutRef
    /\ socks' = r.socks
    /\ pingOn' = r.pingOn
    /\ probes' = r.probes
    /\ leaked' = r.leaked
    /\ fallbackTimeout' = r.fallbackTimeout
    /\ mounted' = r.mounted
    /\ rendered' = r.rendered
    /\ now' = r.now
    /\ reconnectDelay' = r.reconnectDelay
    /\ wire' = r.wire
    /\ watch' = r.watch
    /\ drops' = r.drops
    /\ link' = r.link
    /\ lastCall' = r.lastCall
    /\ awaiting' = r.awaiting

\* The ping intervals, and all the timers, pending with no ref holding them.
PingLeaks(r) == r.leaked["ping"] + Cardinality(r.pingOn \ {r.pingIntervalRef})
Leaks(r) ==
    r.leaked["probe"] + r.leaked["connect"] + r.leaked["reconnect"]
        + r.leaked["mock"] + PingLeaks(r)

\* The model's bounds, as a guard on the state an action leads to.
Bounded(r) ==
    /\ r.probes <= MaxProbes
    /\ Leaks(r) <= MaxLeak
    /\ r.now <= MaxNow

\* ------------------------------------------------ browser and React

\* A faulty hook: no update of isMockMode takes effect.
SetStateNeverMock(r, cell, v) ==
    IF r.mounted /\ cell # "isMockMode" THEN [r EXCEPT ![cell] = v] ELSE r

\* A useState setter: React drops the update of an unmounted component.
SetState(r, cell, v) == IF r.mounted THEN [r EXCEPT ![cell] = v] ELSE r

\* ws.readyState; of wsRef.current?.readyState when s is 0, undefined
ReadyState(r, s) ==
    IF s = 0 THEN "undefined"
    ELSE IF r.socks[s] = "CLOSING_HS" THEN "CLOSING" ELSE r.socks[s]

\* ws.close(): a socket still in its handshake fails it, an open one starts
\* the closing handshake, a closing or closed one is left alone.
WsCloseCall(r, s) ==
    IF s = 0 THEN r
    ELSE [r EXCEPT !.socks[s] =
            CASE @ = "CONNECTING" -> "CLOSING_HS"
              [] @ = "OPEN" -> "CLOSING"
              [] OTHER -> @]

\* ws.send(JSON.stringify(m)) on socket s
WsSend(r, s, type, symbol) ==
    [r EXCEPT !.wire = Append(@, [sock |-> s, type |-> type, symbol |-> symbol])]

\* ref.current = setTimeout(...) or setInterval(...): the timer the ref held,
\* if still pending, stays pending with nothing holding it.
ArmRef(r, ref, kind) ==
    [r EXCEPT ![ref] = TRUE,
              !.leaked[kind] = @ + (IF r[ref] THEN 1 ELSE 0)]

\* if (ref.current) clearTimeout(ref.current)
ClearRef(r, ref) == [r EXCEPT ![ref] = FALSE]

\* pingIntervalRef.current = setInterval(() => ... ws ..., 30000)
ArmPing(r, s) ==
    [r EXCEPT !.pingOn = @ \cup {s}, !.pingIntervalRef = s]

\* if (pingIntervalRef.current) clearInterval(pingIntervalRef.current)
ClearPing(r) ==
    [r EXCEPT !.pingOn = @ \ {r.pingIntervalRef}, !.pingIntervalRef = 0]

\* A closed socket is forgotten, and wsRef no longer tells it from null; a
\* ping interval bound to a closed socket, and which no ref holds, stays
\* pending for good.
ForgetAll(r, dead) ==
    IF dead = {} THEN r
    ELSE [r EXCEPT !.pingOn = @ \ dead,
                   !.awaiting = @ \ dead,
                   !.pingIntervalRef = IF @ \in dead THEN 0 ELSE @,
                   !.leaked["ping"] =
                       @ + Cardinality((r.pingOn \cap dead) \ {r.pingIntervalRef}),
                   !.wsRef = IF @ \in dead THEN 0 ELSE @,
                   !.socks = [s \in SockIds |->
                                 IF s \in dead THEN "NONE" ELSE r.socks[s]]]

Forget(r) == ForgetAll(r, {s \in SockIds : r.socks[s] = "CLOSED"})

\* The sockets are told apart by what is known of them, not by their slots:
\* they are kept in the order of SockKey.
SockKey(r, s) ==
    (CASE r.socks[s] = "OPEN" -> 5
       [] r.socks[s] = "CONNECTING" -> 4
       [] r.socks[s] = "CLOSING" -> 3
       [] r.socks[s] = "CLOSING_HS" -> 2
       [] OTHER -> 0) * 8
    + (IF r.wsRef = s THEN 4 ELSE 0)
    + (IF r.pingIntervalRef = s THEN 2 ELSE 0)
    + (IF s \in r.pingOn THEN 1 ELSE 0)

SlotOf(key) ==
    [s \in SockIds |->
        1 + Cardinality({t \in SockIds : \/ key[t] > key[s]
                                         \/ key[t] = key[s] /\ t < s})]

RenumberBy(r, slot) ==
    IF \A s \in SockIds : slot[s] = s THEN r
    ELSE [r EXCEPT !.socks = [n \in SockIds |->
                                r.socks[CHOOSE s \in SockIds : slot[s] = n]],
                   !.wsRef = IF @ = 0 THEN 0 ELSE slot[@],
                   !.pingIntervalRef = IF @ = 0 THEN 0 ELSE slot[@],
                   !.pingOn = {slot[s] : s \in @},
                   !.awaiting = {slot[s] : s \in @},
                   !.wire = [i \in DOMAIN @ |-> [@[i] EXCEPT !.sock = slot[@]]]]

Renumber(r) == RenumberBy(r, SlotOf([s \in SockIds |-> SockKey(r, s)]))

Retire(r) == Renumber(Forget(r))

RECURSIVE SetToSeq(_)
SetToSeq(S) ==
    IF S = {} THEN <<>>
    ELSE LET x == CHOOSE y \in S : TRUE IN <<x>> \o SetToSeq(S \ {x})

RECURSIVE Pow2(_)
Pow2(n) == IF n = 0 THEN 1 ELSE 2 * Pow2(n - 1)

Min(a, b) == IF a < b THEN a ELSE b

\* ----------------------------------------------------------- handlers

\* subscriptionsRef.current.forEach(symbol => ws.send({type: 'subscribe', symbol}))
RECURSIVE ReplayAll(_, _, _)
ReplayAll(r, s, todo) ==
    IF todo = <<>> THEN r
    ELSE ReplayAll(WsSend(r, s, "subscribe", Head(todo)), s, Tail(todo))

\* A faulty onopen: the set is replayed, and then replayed again.
OnOpenReplayingTwice(r, s) ==
    LET r1 == ClearRef(r, "connectionTimeoutRef")
        r2 == SetState(r1, "isConnected", TRUE)
        r3 == SetState(r2, "connectionStatus", "connected")
        r4 == SetState(r3, "isMockMode", FALSE)
        r5 == [r4 EXCEPT !.reconnectAttemptsRef = 0]
        todo == SetToSeq(r.subscriptionsRef)
    IN  ReplayAll(ReplayAll(ArmPing(r5, s), s, todo), s, todo)

\* A faulty onopen: the symbols subscribed so far are not replayed.
OnOpenNotReplaying(r, s) ==
    LET r1 == ClearRef(r, "connectionTimeoutRef")
        r2 == SetState(r1, "isConnected", TRUE)
        r3 == SetState(r2, "connectionStatus", "connected")
        r4 == SetState(r3, "isMockMode", FALSE)
        r5 == [r4 EXCEPT !.reconnectAttemptsRef = 0]
    IN  ArmPing(r5, s)

\* ws.onopen of socket s
OnOpen(r, s) ==
    LET r1 == ClearRef(r, "connectionTimeoutRef")
        r2 == SetState(r1, "isConnected", TRUE)
        r3 == SetState(r2, "connectionStatus", "connected")
        r4 == SetState(r3, "isMockMode", FALSE)
        r5 == [r4 EXCEPT !.reconnectAttemptsRef = 0]
    IN  ReplayAll(ArmPing(r5, s), s, SetToSeq(r.subscriptionsRef))

\* A faulty onmessage: a payload that does not parse is taken for a failure
\* of the transport.
OnMessageFailingOnGarbage(r, s, m) ==
    IF m = "pong" THEN SetState(r, "latency", r.now - r.lastPingRef)
    ELSE IF m = "malformed"
    THEN SetState(SetState(r, "isConnected", FALSE), "connectionStatus", "error")
    ELSE r

\* ws.onmessage of socket s; only a pong changes anything, and a payload
\* that does not parse is caught and logged.
OnMessage(r, s, m) ==
    IF m = "pong" THEN SetState(r, "latency", r.now - r.lastPingRef) ELSE r

\* Math.min(500 * Math.pow(2, attempts), 3000)
BackoffDelay(attempts) == Min(BackoffBase * Pow2(attempts), BackoffCap)

\* A faulty onclose: the first failure is retried like the later ones.
OnCloseRetryingFirst(r, code) ==
    IF code # 1000 /\ r.reconnectAttemptsRef < maxReconnectAttempts
    THEN ArmRef([r EXCEPT !.reconnectAttemptsRef = @ + 1,
                          !.reconnectDelay =
                              BackoffDelay(r.reconnectAttemptsRef + 1)],
                "reconnectTimeoutRef", "reconnect")
    ELSE IF r.reconnectAttemptsRef >= maxReconnectAttempts
    THEN SetState(SetState(r, "connectionStatus", "error"), "isMockMode", TRUE)
    ELSE r

\* A faulty onclose: the shortcut to mock mode is taken on a normal closure
\* only.
OnCloseNextShortcutOnNormal(r, code) ==
    IF r.reconnectAttemptsRef = 0 /\ code = 1000
    THEN SetState(r, "isMockMode", TRUE)
    ELSE IF code # 1000 /\ r.reconnectAttemptsRef < maxReconnectAttempts
    THEN ArmRef([r EXCEPT !.reconnectAttemptsRef = @ + 1,
                          !.reconnectDelay =
                              BackoffDelay(r.reconnectAttemptsRef + 1)],
                "reconnectTimeoutRef", "reconnect")
    ELSE IF r.reconnectAttemptsRef >= maxReconnectAttempts
    THEN SetState(SetState(r, "connectionStatus", "error"), "isMockMode", TRUE)
    ELSE r

\* A faulty onclose: every abnormal close is counted and retried, with no
\* test of the counter.
OnCloseNextCountingEvery(r, code) ==
    IF code # 1000
    THEN ArmRef([r EXCEPT !.reconnectAttemptsRef = @ + 1,
                          !.reconnectDelay =
                              BackoffDelay(r.reconnectAttemptsRef + 1)],
                "reconnectTimeoutRef", "reconnect")
    ELSE r

\* ws.onclose, from its first test of reconnectAttemptsRef on
OnCloseNext(r, code) ==
    IF r.reconnectAttemptsRef = 0
    THEN SetState(r, "isMockMode", TRUE)
    ELSE IF code # 1000 /\ r.reconnectAttemptsRef < maxReconnectAttempts
    THEN ArmRef([r EXCEPT !.reconnectAttemptsRef = @ + 1,
                          !.reconnectDelay =
                              BackoffDelay(r.reconnectAttemptsRef + 1)],
                "reconnectTimeoutRef", "reconnect")
    ELSE IF r.reconnectAttemptsRef >= maxReconnectAttempts
    THEN SetState(SetState(r, "connectionStatus", "error"), "isMockMode", TRUE)
    ELSE r

\* ws.onclose of socket s, event.code = code
OnClose(r, s, code) ==
    LET r1 == ClearRef(r, "connectionTimeoutRef")
        r2 == SetState(r1, "isConnected", FALSE)
        r3 == SetState(r2, "connectionStatus", "disconnected")
    IN  OnCloseNext(ClearPing(r3), code)

\* ws.onerror of socket s
OnError(r, s) ==
    LET r1 == ClearRef(r, "connectionTimeoutRef")
        r2 == SetState(r1, "connectionStatus", "error")
    IN  IF r.reconnectAttemptsRef = 0
        THEN SetState(r2, "isMockMode", TRUE)
        ELSE r2

\* the callback of the connect timeout (1.2 s)
OnConnectionTimeout(r) ==
    IF ReadyState(r, r.wsRef) # "OPEN"
    THEN LET r1 == WsCloseCall(r, r.wsRef)
             r2 == SetState(r1, "connectionStatus", "error")
         IN  SetState(r2, "isMockMode", TRUE)
    ELSE r

\* The slot of the next WebSocket object.
FreeSock(r) == {s \in SockIds : r.socks[s] = "NONE"}
NewSock(r) == CHOOSE s \in FreeSock(r) : \A t \in FreeSock(r) : s <= t

\* quickCheck().then(isBackendAvailable => ...): result is "true" (response.ok),
\* "false" (a response that is not ok) or "null" (the fetch failed or was aborted)
\* wsRef.current = new WebSocket(url)
NewWebSocket(r, ws) == [r EXCEPT !.socks[ws] = "CONNECTING", !.wsRef = ws]

\* A faulty answer handler: a probe that failed counts as a server absent.
ProbeThenUnknownIsDown(r, result) ==
    IF result # "true"
    THEN SetState(SetState(r, "connectionStatus", "error"), "isMockMode", TRUE)
    ELSE NewWebSocket(ArmRef(r, "connectionTimeoutRef", "connect"), NewSock(r))

\* A faulty answer handler: a server reported absent is tried all the same,
\* short of creating the socket.
ProbeThenTrying(r, result) ==
    IF result = "false"
    THEN ArmRef(SetState(r, "connectionStatus", "error"),
                "connectionTimeoutRef", "connect")
    ELSE NewWebSocket(ArmRef(r, "connectionTimeoutRef", "connect"), NewSock(r))

ProbeThen(r, result) ==
    IF result = "false"
    THEN SetState(SetState(r, "connectionStatus", "error"), "isMockMode", TRUE)
    ELSE NewWebSocket(ArmRef(r, "connectionTimeoutRef", "connect"), NewSock(r))

\* connect(): the health probe is started and its answer is awaited
Connect(r) ==
    IF ReadyState(r, r.wsRef) = "OPEN" THEN r
    ELSE LET r1 == ClearRef(r, "connectionTimeoutRef")
             r2 == SetState(r1, "connectionStatus", "connecting")
         IN  [r2 EXCEPT !.probes = @ + 1]

\* disconnect()
Disconnect(r) ==
    LET r1 == [WsCloseCall(r, r.wsRef) EXCEPT !.wsRef = 0]
        r2 == ClearRef(r1, "reconnectTimeoutRef")
        r3 == ClearRef(r2, "connectionTimeoutRef")
        r4 == ClearPing(r3)
        r5 == ClearRef(r4, "mockLatencyRef")
        r6 == SetState(r5, "isConnected", FALSE)
        r7 == SetState(r6, "connectionStatus", "disconnected")
        r8 == SetState(r7, "isMockMode", FALSE)
    IN  [r8 EXCEPT !.reconnectAttemptsRef = 0]

\* A faulty subscribe: the symbol is remembered only if it could be sent.
SubscribeCallOnlyOpen(r, x) ==
    IF ReadyState(r, r.wsRef) = "OPEN"
    THEN [WsSend(r, r.wsRef, "subscribe", x) EXCEPT !.subscriptionsRef = @ \cup {x}]
    ELSE r

\* A faulty unsubscribe: the set is cleared, not the one symbol deleted.
UnsubscribeCallClearing(r, x) ==
    LET r1 == IF ReadyState(r, r.wsRef) = "OPEN"
              THEN WsSend(r, r.wsRef, "unsubscribe", x) ELSE r
    IN  [r1 EXCEPT !.subscriptionsRef = {}]

\* subscribe(symbol)
SubscribeCall(r, x) ==
    LET r1 == IF ReadyState(r, r.wsRef) = "OPEN"
              THEN WsSend(r, r.wsRef, "subscribe", x) ELSE r
    IN  [r1 EXCEPT !.subscriptionsRef = @ \cup {x}]

\* unsubscribe(symbol)
UnsubscribeCall(r, x) ==
    LET r1 == IF ReadyState(r, r.wsRef) = "OPEN"
              THEN WsSend(r, r.wsRef, "unsubscribe", x) ELSE r
    IN  [r1 EXCEPT !.subscriptionsRef = @ \ {x}]

\* A faulty sendMessage: the payload is sent whatever the socket's state.
SendMessageCallUnguarded(r) == WsSend(r, r.wsRef, "message", "")

\* sendMessage(message); the payload is any message of the caller's
SendMessageCall(r) ==
    IF ReadyState(r, r.wsRef) = "OPEN"
    THEN WsSend(r, r.wsRef, "message", "")
    ELSE r

\* The cleanup and the body of the mock-latency effect, deps [isMockMode].
MockCleanup(r) == ClearRef(r, "mockLatencyRef")
MockBody(r) ==
    IF r.rendered.isMockMode
    THEN ArmRef(r, "mockLatencyRef", "mock")
    ELSE ClearRef(r, "mockLatencyRef")

\* setLatency(Math.floor(Math.random() * 30) + 5), Math.random() = k / RandomSteps
MockLatency(k) == ((k * MockRange) \div RandomSteps) + MockFloor
OnMockTick(r, k) == SetState(r, "latency", MockLatency(k))

\* The cleanup and the body of the auto-connect effect,
\* deps [connect, disconnect, isConnected, isMockMode].
AutoCleanup(r) == Disconnect([r EXCEPT !.fallbackTimeout = FALSE])
AutoBody(r) == [Connect(r) EXCEPT !.fallbackTimeout = TRUE]

\* the callback of the fallback timeout (0.8 s); it reads the isConnected
\* and isMockMode of the render that armed it
OnFallbackTimeout(r) ==
    IF ~r.rendered.isConnected /\ ~r.rendered.isMockMode
    THEN SetState(r, "isMockMode", TRUE)
    ELSE r

\* ------------------------------------------------------------ actions

TypeOK ==
    /\ isConnected \in BOOLEAN /\ isMockMode \in BOOLEAN
    /\ connectionStatus \in {"connecting", "connected", "disconnected", "error"}
    /\ latency \in Int
    /\ wsRef \in 0..MaxSockets /\ pingIntervalRef \in 0..MaxSockets
    /\ reconnectTimeoutRef \in BOOLEAN /\ mockLatencyRef \in BOOLEAN
    /\ connectionTimeoutRef \in BOOLEAN /\ fallbackTimeout \in BOOLEAN
    /\ lastPingRef \in 0..MaxNow /\ now \in 1..MaxNow
    /\ subscriptionsRef \subseteq Symbols
    /\ reconnectAttemptsRef \in 0..maxReconnectAttempts
    /\ socks \in [SockIds -> {"NONE", "CONNECTING", "OPEN", "CLOSING_HS",
                              "CLOSING", "CLOSED"}]
    /\ pingOn \subseteq SockIds
    /\ probes \in 0..MaxProbes
    /\ leaked \in [TimerKinds -> 0..MaxLeak]
    /\ Leaks(Cur) <= MaxLeak
    /\ mounted \in BOOLEAN
    /\ rendered \in [isConnected : BOOLEAN, isMockMode : BOOLEAN]
    /\ reconnectDelay \in 0..BackoffCap
    /\ watch \subseteq {"drops", "link", "calls", "repeats", "told"}
    /\ drops \in 0..maxReconnectAttempts
    /\ link \in {"none", "up", "dropped", "again"}
    /\ lastCall \in [Symbols -> {"none", "repeated", "subscribe", "subscribe unsent",
                                  "unsubscribe"}]
    /\ awaiting \subseteq SockIds

\* Mount: the hook has rendered once and its effects have run, the
\* mock-latency effect's body first (isMockMode is false: nothing to clear),
\* then connect() and the fallback timeout of the auto-connect effect.
InitFrom(w, attempts) ==
    /\ isConnected = FALSE /\ latency = 0
    /\ connectionStatus = "connecting" /\ isMockMode = FALSE
    /\ wsRef = 0
    /\ reconnectTimeoutRef = FALSE /\ pingIntervalRef = 0
    /\ lastPingRef = 0 /\ subscriptionsRef = {}
    /\ reconnectAttemptsRef = attempts
    /\ mockLatencyRef = FALSE /\ connectionTimeoutRef = FALSE
    /\ socks = [s \in SockIds |-> "NONE"]
    /\ pingOn = {} /\ probes = 1
    /\ leaked = [k \in TimerKinds |-> 0]
    /\ fallbackTimeout = TRUE
    /\ mounted = TRUE
    /\ rendered = [isConnected |-> FALSE, isMockMode |-> FALSE]
    /\ now = 1 /\ reconnectDelay = 0 /\ wire = <<>>
    /\ watch = w
    /\ drops = 0 /\ link = "none" /\ awaiting = {}
    /\ lastCall = [x \in Symbols |-> "none"]

\* useRef(0): the counter starts at 0.
InitWatching(w) == InitFrom(w, 0)

Init == InitWatching({})

\* The observer's records.  A close is abnormal when its code is not 1000 and
\* the socket was not being closed by close(): was is the socket's state
\* before the close.
Abnormal(was, code) == code # 1000 /\ was \in {"CONNECTING", "OPEN"}

NoteOpen(r) ==
    [r EXCEPT !.drops = IF "drops" \in r.watch THEN 0 ELSE @,
              !.link = IF "link" \notin r.watch THEN @
                       ELSE IF @ \in {"dropped", "again"} THEN "again"
                       ELSE "up"]

NoteClose(r, was, code) ==
    [r EXCEPT !.drops = IF "drops" \in r.watch /\ Abnormal(was, code)
                        THEN Min(@ + 1, maxReconnectAttempts) ELSE @,
              !.link = IF "link" \in r.watch /\ Abnormal(was, code)
                          /\ was = "OPEN" /\ @ \in {"up", "again"}
                       THEN "dropped" ELSE @]

NoteCall(r, x, call) ==
    [r EXCEPT !.lastCall[x] =
        IF "calls" \notin r.watch THEN @
        ELSE IF call = "subscribe" /\ ReadyState(r, r.wsRef) # "OPEN"
        THEN "subscribe unsent"
        ELSE call]

\* Whether the last call of all, on x, asked for what the set already said:
\* a subscribe of a symbol in it, an unsubscribe of one not in it.
NoteRepeat(r, x, repeated) ==
    IF "repeats" \notin r.watch THEN r
    ELSE [r EXCEPT !.lastCall =
             [y \in Symbols |->
                 IF y = x /\ repeated THEN "repeated" ELSE "none"]]

\* The type of the last subscribe or unsubscribe frame of w sent to socket s
\* about x, "" if there is none.
LastAbout(w, s, x) ==
    LET about == {i \in DOMAIN w :
                     /\ w[i].sock = s /\ w[i].symbol = x
                     /\ w[i].type \in {"subscribe", "unsubscribe"}}
    IN  IF about = {} THEN ""
        ELSE w[CHOOSE i \in about : \A j \in about : j <= i].type

\* What the server has been told on the socket wsRef holds: per symbol,
\* "subscribe" if the last frame about it sent on that socket is a subscribe,
\* "none" otherwise; a socket that wsRef did not hold before the task has
\* been sent nothing before it.
NoteTold(r) ==
    IF "told" \notin r.watch THEN r
    ELSE [r EXCEPT !.lastCall =
             [x \in Symbols |->
                 LET last == LastAbout(r.wire, r.wsRef, x)
                 IN  IF r.wsRef = 0 \/ last = "unsubscribe" THEN "none"
                     ELSE IF last = "subscribe" THEN "subscribe"
                     ELSE IF r.wsRef = wsRef THEN r.lastCall[x]
                     ELSE "none"]]

\* One browser task ends in state r.
Task(r) ==
    \E h \in {NoteTold(r)} : \E f \in {Forget(h)} : \E q \in {Renumber(f)} :
        Bounded(q) /\ Store(q)

\* A render whose isConnected or isMockMode differs from the last render's:
\* React runs the cleanups of the effects whose deps changed, and then
\* their bodies.
EffectCommit ==
    /\ mounted
    /\ <<isConnected, isMockMode>> # <<rendered.isConnected, rendered.isMockMode>>
    /\ LET due == isMockMode # rendered.isMockMode
           r1 == [Cur EXCEPT !.rendered = [isConnected |-> isConnected,
                                           isMockMode |-> isMockMode]]
           r2 == AutoCleanup(IF due THEN MockCleanup(r1) ELSE r1)
       IN  Task(AutoBody(IF due THEN MockBody(r2) ELSE r2))

\* The component unmounts: every effect's cleanup runs, no body follows.
Unmount ==
    /\ mounted
    /\ Task([AutoCleanup(MockCleanup(Cur)) EXCEPT !.mounted = FALSE])

\* The health endpoint answers: the abort timer is cleared.
ProbeResponse(ok) ==
    /\ probes > 0
    /\ ok = "false" \/ FreeSock(Cur) # {}
    /\ Task(ProbeThen([Cur EXCEPT !.probes = @ - 1], ok))

\* The fetch fails: its abort timer is left pending.
ProbeError ==
    /\ probes > 0
    /\ FreeSock(Cur) # {}
    /\ Task(ProbeThen([Cur EXCEPT !.probes = @ - 1,
                                  !.leaked["probe"] = @ + 1], "null"))

\* The abort timer (300 ms) fires first: the fetch is aborted.
ProbeTimeout ==
    /\ probes > 0
    /\ FreeSock(Cur) # {}
    /\ Task(ProbeThen([Cur EXCEPT !.probes = @ - 1], "null"))

\* The abort timer of a fetch that has failed fires: nothing is left to abort.
ProbeTimerExpire ==
    /\ leaked["probe"] > 0
    /\ Task([Cur EXCEPT !.leaked["probe"] = @ - 1])

\* The handshake of socket s succeeds.
WsOpen(s) ==
    /\ socks[s] = "CONNECTING"
    /\ Task(NoteOpen(OnOpen([Cur EXCEPT !.socks[s] = "OPEN"], s)))

\* The connection of socket s fails: an error event, then a close event
\* with code 1006.
WsFailed(s) ==
    /\ socks[s] \in {"CONNECTING", "OPEN", "CLOSING_HS", "CLOSING"}
    /\ Task(NoteClose(OnClose(OnError([Cur EXCEPT !.socks[s] = "CLOSED"], s),
                               s, 1006),
                       socks[s], 1006))

\* The connection of socket s is closed by a closing handshake: the one the
\* server starts (code 1000 or 1001) or the one close(1000) started.
WsClosed(s, code) ==
    /\ \/ socks[s] = "OPEN"
       \/ socks[s] = "CLOSING" /\ code = 1000
    /\ Task(NoteClose(OnClose([Cur EXCEPT !.socks[s] = "CLOSED"], s, code),
                       socks[s], code))

\* A message arrives on socket s; a pong's handler reads the clock, d after
\* its last reading.
WsMessage(s, m, d) ==
    /\ socks[s] \in {"OPEN", "CLOSING"}
    /\ m = "pong" \/ d = 0
    /\ Task(OnMessage([Cur EXCEPT !.now = @ + d,
                                  !.awaiting = IF m = "pong" THEN @ \ {s} ELSE @],
                       s, m))

\* A tick of the ping interval bound to socket s.
PingTick(s, d) ==
    /\ s \in pingOn
    /\ ReadyState(Cur, s) = "OPEN"
    /\ Task(WsSend([Cur EXCEPT !.now = @ + d, !.lastPingRef = now + d,
                                !.awaiting = @ \cup {s}],
                    s, "ping", ""))

\* A tick of a mock-latency interval.
MockTick(k) ==
    /\ (mockLatencyRef \/ leaked["mock"] > 0)
    /\ Task(OnMockTick(Cur, k))

\* A pending timeout fires: the one its ref holds, or one no ref holds.
ConnectionTimeoutFire(held) ==
    /\ IF held THEN connectionTimeoutRef ELSE leaked["connect"] > 0
    /\ LET r1 == IF held THEN [Cur EXCEPT !.connectionTimeoutRef = FALSE]
                 ELSE [Cur EXCEPT !.leaked["connect"] = @ - 1]
       IN  Task(OnConnectionTimeout(r1))

ReconnectTimeoutFire(held) ==
    /\ IF held THEN reconnectTimeoutRef ELSE leaked["reconnect"] > 0
    /\ LET r1 == IF held THEN [Cur EXCEPT !.reconnectTimeoutRef = FALSE]
                 ELSE [Cur EXCEPT !.leaked["reconnect"] = @ - 1]
       IN  Task(Connect(r1))

FallbackTimeoutFire ==
    /\ fallbackTimeout
    /\ Task(OnFallbackTimeout([Cur EXCEPT !.fallbackTimeout = FALSE]))

TimeoutFire(kind, held) ==
    /\ CASE kind = "connect" -> ConnectionTimeoutFire(held)
         [] kind = "reconnect" -> ReconnectTimeoutFire(held)
         [] OTHER -> held /\ FallbackTimeoutFire

\* A collaborator's calls.
Subscribe(x) ==
    /\ mounted
    /\ Task(NoteRepeat(NoteCall(SubscribeCall(Cur, x), x, "subscribe"),
                       x, x \in subscriptionsRef))
Unsubscribe(x) ==
    /\ mounted
    /\ Task(NoteRepeat(NoteCall(UnsubscribeCall(Cur, x), x, "unsubscribe"),
                       x, x \notin subscriptionsRef))
SendMessage == mounted /\ Task(SendMessageCall(Cur))

\* The connection manager: effects, health probe, transport, timeouts.
NextConn ==
    \/ EffectCommit
    \/ Unmount
    \/ \E ok \in {"true", "false"} : ProbeResponse(ok)
    \/ ProbeError
    \/ ProbeTimeout
    \/ ProbeTimerExpire
    \/ \E s \in SockIds : WsOpen(s)
    \/ \E s \in SockIds : WsFailed(s)
    \/ \E s \in SockIds, code \in {1000, 1001} : WsClosed(s, code)
    \/ \E kind \in {"connect", "reconnect", "fallback"}, held \in BOOLEAN :
          TimeoutFire(kind, held)

\* The collaborators' calls.
NextCalls ==
    \/ \E x \in Symbols : Subscribe(x)
    \/ \E x \in Symbols : Unsubscribe(x)
    \/ SendMessage

\* The latency sampler and the inbound messages.
NextSampler ==
    \/ \E s \in SockIds, m \in Inbound, d \in {0, 1} : WsMessage(s, m, d)
    \/ \E s \in SockIds, d \in {0, 1} : PingTick(s, d)
    \/ \E k \in RandomDraws : MockTick(k)

Next == NextConn \/ NextCalls \/ NextSampler

\* The whole hook.
Spec == Init /\ [][Next]_vars

(***************************************************************************)
(* The collaborators' calls write subscriptionsRef and the wire, the       *)
(* sampler writes latency, lastPingRef and the clock, and no handler of    *)
(* the connection manager reads any of these but subscriptionsRef, which   *)
(* it only replays to the wire.  So the manager with the calls alone, or   *)
(* with the sampler alone, behaves as it does in Spec, seen through the    *)
(* variables the left-out part does not write.                             *)
(***************************************************************************)
SpecConn == Init /\ [][NextConn]_vars
SpecFeed == Init /\ [][NextConn \/ NextCalls]_vars
SpecLatency == Init /\ [][NextConn \/ NextSampler]_vars

\* The same, with the observer recording drops, link or lastCall.
SpecDrops == InitWatching({"drops"}) /\ [][NextConn]_vars
SpecLink == InitWatching({"link"}) /\ [][NextConn]_vars
SpecReplay == InitWatching({"link"}) /\ [][NextConn \/ NextCalls]_vars
SpecCalls == InitWatching({"calls"}) /\ [][NextConn \/ NextCalls]_vars
SpecRepeats == InitWatching({"repeats"}) /\ [][NextConn \/ NextCalls]_vars
SpecTold == InitWatching({"told"}) /\ [][NextConn \/ NextCalls]_vars

\* The backoff of onclose as a function of the counter it finds.  In the
\* hook's own runs onclose finds the counter at 0 and returns before the
\* reconnect branch, so the branch is exercised by drawing the counter: the
\* manager is started with reconnectAttemptsRef at any value of its range.
SpecBackoff ==
    /\ \E attempts \in 0..maxReconnectAttempts : InitFrom({}, attempts)
    /\ [][NextConn]_vars

\* The connection manager under the scheduling the browser and React give:
\* a scheduled effect commit runs, a pending timeout fires, and a probe in
\* flight is ended by its abort timer if by nothing else.  A socket's
\* handshake may hang for ever: of a socket's events only the close that
\* close() has asked for is promised.
WsCloseDone ==
    \E s \in SockIds :
        /\ socks[s] \in {"CLOSING_HS", "CLOSING"}
        /\ WsFailed(s) \/ WsClosed(s, 1000)

SpecConnFair ==
    /\ Init /\ [][NextConn]_vars
    /\ WF_vars(EffectCommit)
    /\ WF_vars(FallbackTimeoutFire)
    /\ WF_vars(ConnectionTimeoutFire(TRUE))
    /\ WF_vars(ConnectionTimeoutFire(FALSE))
    /\ WF_vars(ProbeTimeout)
    /\ WF_vars(ProbeTimerExpire)
    /\ WF_vars(WsCloseDone)

\* ------------------------------------------------------------- claims

\* The timers of one kind that are pending.
Pending(kind) ==
    CASE kind = "probe" -> probes + leaked["probe"]
      [] kind = "connect" ->
            (IF connectionTimeoutRef THEN 1 ELSE 0) + leaked["connect"]
      [] kind = "reconnect" ->
            (IF reconnectTimeoutRef THEN 1 ELSE 0) + leaked["reconnect"]
      [] kind = "ping" -> Cardinality(pingOn) + leaked["ping"]
      [] kind = "mock" -> (IF mockLatencyRef THEN 1 ELSE 0) + leaked["mock"]

\* The sockets whose handshake is under way.
Connecting == {s \in SockIds : socks[s] = "CONNECTING"}

\* C1: disconnect(), called in any state, leaves the manager idle (not
\* connected, status disconnected, not in mock mode, no transport held)
\* with no timer of any kind pending.  The unmount calls disconnect() in
\* whatever state the hook is in.
C1_DisconnectLeavesNoTimer ==
    [][mounted /\ ~mounted' =>
          /\ ~isConnected' /\ connectionStatus' = "disconnected"
          /\ ~isMockMode' /\ wsRef' = 0 /\ reconnectAttemptsRef' = 0
          /\ \A kind \in TimerKinds : Pending(kind)' = 0]_vars

\* C2: while the hook is in mock mode the manager starts no health probe,
\* opens no transport and arms no reconnect timer; no call of the hook lets a
\* collaborator ask for a connection.
C2_MockModeIsQuiet ==
    [][isMockMode =>
          /\ probes' <= probes
          /\ Cardinality(Connecting') <= Cardinality(Connecting)
          /\ Pending("reconnect")' <= Pending("reconnect")]_vars

\* The messages of one type and symbol sent to socket s, among w.
Sent(w, s, type, x) ==
    Cardinality({i \in DOMAIN w : w[i] = [sock |-> s, type |-> type, symbol |-> x]})

\* The symbols a subscribe message of w names.
Subscribed(w) == {w[i].symbol : i \in {j \in DOMAIN w : w[j].type = "subscribe"}}

\* C3: when a transport opens, the first time or again after a drop, the
\* task of its onopen sends it one subscribe message for each symbol of
\* subscriptionsRef, and nothing else: none twice, none left out.  The socket
\* that opened is the one the ping interval is now bound to.
C3_ReplayOncePerSymbol ==
    [][\A s \in SockIds : WsOpen(s) =>
          /\ pingIntervalRef' # 0 /\ socks'[pingIntervalRef'] = "OPEN"
          /\ Len(wire') = Cardinality(subscriptionsRef')
          /\ \A x \in subscriptionsRef' :
                Sent(wire', pingIntervalRef', "subscribe", x) = 1]_vars

\* A transport has opened after an open one dropped, and both symbols have
\* just been replayed to it.
C3_Witness ==
    /\ link = "again" /\ isConnected /\ subscriptionsRef = Symbols
    /\ pingIntervalRef # 0 /\ socks[pingIntervalRef] = "OPEN"
    /\ Len(wire) = Cardinality(Symbols)
    /\ \A x \in Symbols : Sent(wire, pingIntervalRef, "subscribe", x) = 1

\* The symbols whose last call is subscribe.
Net == {x \in Symbols : lastCall[x] \in {"subscribe", "subscribe unsent"}}

\* C4: whatever subscribe and unsubscribe calls are made, the transport open
\* or not, subscriptionsRef is the set of the symbols whose last call is
\* subscribe, and that is the set replayed when a transport opens.
C4_SetIsNetOfCalls ==
    [][/\ subscriptionsRef' = Net'
       /\ \A s \in SockIds : WsOpen(s) => Subscribed(wire') = Net']_vars

\* X was last subscribed while no transport was open and Y's last call is
\* unsubscribe; a transport has just opened and X alone was replayed to it.
C4_Witness ==
    /\ lastCall["X"] = "subscribe unsent" /\ lastCall["Y"] = "unsubscribe"
    /\ isConnected /\ subscriptionsRef = {"X"}
    /\ pingIntervalRef # 0 /\ socks[pingIntervalRef] = "OPEN"
    /\ wire = <<[sock |-> pingIntervalRef, type |-> "subscribe", symbol |-> "X"]>>

\* A step in which socket s, connecting or open, is closed from outside.
AbnormalClose(s) ==
    /\ socks[s] \in {"CONNECTING", "OPEN"}
    /\ WsFailed(s) \/ WsClosed(s, 1001)

\* C5: the abnormal close that is the maxReconnectAttempts-th in a row, with
\* no open between them, leaves the hook in mock mode, and for as long as no
\* transport opens no reconnect timer is pending.
C5_MockAfterDrops ==
    [][drops' = maxReconnectAttempts =>
          /\ Pending("reconnect")' = 0
          /\ \A s \in SockIds : mounted /\ AbnormalClose(s) => isMockMode']_vars

\* Two abnormal closes in a row, and the onclose of the second has run.
C5_Witness ==
    /\ drops = maxReconnectAttempts /\ mounted
    /\ isMockMode /\ ~isConnected /\ connectionStatus = "disconnected"
    /\ Pending("reconnect") = 0

\* C6: every socket in its handshake has its connect timeout pending, and
\* one of these timeouts fires: the status is error, and the socket whose
\* timeout fired is closed, so that still every socket in its handshake has
\* its timeout pending; with reconnectAttemptsRef at 0 the hook goes to mock
\* mode, otherwise it arms a reconnect timer and stays out of mock mode.
C6_ConnectTimeoutClosesHalfOpen ==
    [][\A held \in BOOLEAN :
          /\ mounted /\ Connecting # {}
          /\ Cardinality(Connecting) <= Pending("connect")
          /\ ReadyState(Cur, wsRef) # "OPEN"
          /\ ConnectionTimeoutFire(held)
          => /\ Cardinality(Connecting') <= Pending("connect")'
             /\ connectionStatus' = "error"
             /\ IF reconnectAttemptsRef = 0 THEN isMockMode'
                ELSE ~isMockMode' /\ Pending("reconnect")' > 0]_vars

C8_StrayPongIgnored ==
    [][\A s \in SockIds :
          /\ mounted /\ s \notin awaiting
          /\ \E d \in {0, 1} : WsMessage(s, "pong", d)
          => latency' = latency]_vars

\* C9: an open transport closes abnormally with fewer than
\* maxReconnectAttempts attempts counted: the hook is disconnected, with a
\* reconnect timer pending, and not in mock mode.
C9_DropIsRetried ==
    [][\A s \in SockIds :
          /\ mounted /\ socks[s] = "OPEN" /\ wsRef = s
          /\ reconnectAttemptsRef < maxReconnectAttempts
          /\ WsFailed(s) \/ WsClosed(s, 1001)
          => /\ connectionStatus' = "disconnected" /\ ~isConnected'
             /\ Pending("reconnect")' > 0
             /\ ~isMockMode']_vars

\* C10: at most one timer of each kind is pending.
C10_OneTimerPerKind == \A kind \in TimerKinds : Pending(kind) <= 1

\* C11: isConnected and isMockMode are never both true.
C11_ConnectedExcludesMock == ~(isConnected /\ isMockMode)

\* C12: a mounted hook that is neither connected nor in mock mode comes to be
\* connected or in mock mode (or is unmounted): it does not stay for ever
\* connecting, disconnected or in error with neither.
C12_EventuallyLiveOrMock ==
    (mounted /\ ~isConnected /\ ~isMockMode)
        ~> (~mounted \/ isConnected \/ isMockMode)

\* The fallback timeout has put the hook in mock mode while the probe or
\* the handshake it started with was still under way.
C12_Witness ==
    /\ mounted /\ isMockMode /\ ~isConnected
    /\ connectionStatus = "connecting" /\ ~fallbackTimeout
    /\ ~rendered.isConnected /\ ~rendered.isMockMode
    /\ probes > 0 \/ Connecting # {}

\* The step has created a socket, which wsRef holds, and armed the connect
\* timeout, and has changed no state the hook returns.
TransportTried ==
    /\ wsRef' # 0 /\ socks'[wsRef'] = "CONNECTING"
    /\ Cardinality(Connecting') = Cardinality(Connecting) + 1
    /\ connectionTimeoutRef'
    /\ Pending("connect")' >= 1
    /\ isMockMode' = isMockMode /\ isConnected' = isConnected
    /\ connectionStatus' = connectionStatus

\* C13: a probe whose fetch fails, or which its abort timer ends, is handled
\* as one answered ok: the socket is created and the connect timeout armed.
\* The step of the aborted probe is the very step of the probe answered ok.
C13_UnknownProbeStillTries ==
    [][/\ ProbeError \/ ProbeTimeout \/ ProbeResponse("true") => TransportTried
       /\ ProbeTimeout => ProbeResponse("true")]_vars

\* A fetch has failed (its abort timer is still pending) and the socket is
\* in its handshake, the connect timeout armed.
C13_Witness ==
    /\ leaked["probe"] = 1 /\ probes = 0
    /\ wsRef # 0 /\ socks[wsRef] = "CONNECTING" /\ connectionTimeoutRef
    /\ ~isMockMode /\ connectionStatus = "connecting"

\* C14: the handshake of a socket fails (an error event, then a close event)
\* while reconnectAttemptsRef is 0: the hook is in mock mode after the step,
\* no reconnect timer is armed or pending, and the counter is still 0.
C14_FirstFailureGoesToMock ==
    [][\A s \in SockIds :
          /\ mounted /\ reconnectAttemptsRef = 0
          /\ socks[s] = "CONNECTING" /\ WsFailed(s)
          => /\ isMockMode' /\ ~isConnected'
             /\ ~reconnectTimeoutRef' /\ Pending("reconnect")' = 0
             /\ reconnectAttemptsRef' = 0]_vars

\* No socket has ever opened, none is left and no probe is in flight: the
\* one attempt has failed, and the hook is in mock mode with the status
\* onclose leaves.
C14_Witness ==
    /\ link = "none" /\ mounted
    /\ wsRef = 0 /\ probes = 0 /\ \A s \in SockIds : socks[s] = "NONE"
    /\ ~rendered.isConnected /\ ~rendered.isMockMode /\ fallbackTimeout
    /\ isMockMode /\ ~isConnected /\ connectionStatus = "disconnected"
    /\ reconnectAttemptsRef = 0 /\ Pending("reconnect") = 0

\* Every variable but the wire and the observer's record of the calls.
ManagerState ==
    <<isConnected, latency, connectionStatus, isMockMode, wsRef,
      reconnectTimeoutRef, pingIntervalRef, lastPingRef, subscriptionsRef,
      reconnectAttemptsRef, mockLatencyRef, connectionTimeoutRef, socks,
      pingOn, probes, leaked, fallbackTimeout, mounted, rendered,
      now, reconnectDelay, watch, drops, link, awaiting>>

\* C15: subscribe of a symbol the set holds, and unsubscribe of a symbol it
\* does not hold, leave the set and every other part of the hook's state as
\* they were, whatever the state of the transport.  (With the socket open
\* the call still sends its frame.)
C15_RepeatedCallChangesNothing ==
    [][\A x \in Symbols :
          /\ x \in subscriptionsRef /\ Subscribe(x) => UNCHANGED ManagerState
          /\ x \notin subscriptionsRef /\ Unsubscribe(x)
                => UNCHANGED ManagerState]_vars

\* subscribe("X") has just been called with X in the set and the socket
\* open.
C15_Witness ==
    /\ lastCall["X"] = "repeated"
    /\ subscriptionsRef = {"X"}
    /\ wsRef # 0 /\ socks[wsRef] = "OPEN"
    /\ wire = <<[sock |-> wsRef, type |-> "subscribe", symbol |-> "X"]>>

\* Every variable but the wire and the subscription set.
ManagerRest ==
    <<isConnected, latency, connectionStatus, isMockMode, wsRef,
      reconnectTimeoutRef, pingIntervalRef, lastPingRef,
      reconnectAttemptsRef, mockLatencyRef, connectionTimeoutRef, socks,
      pingOn, probes, leaked, fallbackTimeout, mounted, rendered,
      now, reconnectDelay, watch, drops, link, lastCall, awaiting>>

\* The socket wsRef holds is open.
TransportOpen == ReadyState(Cur, wsRef) = "OPEN"

\* C16: called while the socket of wsRef is not open (or wsRef is null),
\* sendMessage, subscribe and unsubscribe complete and send no frame;
\* sendMessage changes nothing, subscribe and unsubscribe change the set
\* alone; and a frame of sendMessage is on the wire only in the step of a
\* sendMessage called with the socket open.
C16_NotOpenSendsNothing ==
    /\ [][/\ ~TransportOpen /\ SendMessage
                => wire' = <<>> /\ UNCHANGED <<ManagerRest, subscriptionsRef>>
          /\ \A x \in Symbols :
                /\ ~TransportOpen /\ Subscribe(x)
                      => /\ wire' = <<>> /\ UNCHANGED ManagerRest
                         /\ subscriptionsRef' = subscriptionsRef \cup {x}
                /\ ~TransportOpen /\ Unsubscribe(x)
                      => /\ wire' = <<>> /\ UNCHANGED ManagerRest
                         /\ subscriptionsRef' = subscriptionsRef \ {x}
          /\ (\E i \in DOMAIN wire' : wire'[i].type = "message")
                => TransportOpen /\ SendMessage]_vars
    /\ [](mounted /\ ~TransportOpen
             => /\ ENABLED SendMessage
                /\ \A x \in Symbols : ENABLED Subscribe(x) /\ ENABLED Unsubscribe(x))

\* No socket has ever opened, and subscribe("X") has been called: the set
\* holds X, a socket is in its handshake, and nothing is on the wire.
C16_Witness ==
    /\ link = "none" /\ mounted /\ subscriptionsRef = {"X"}
    /\ wsRef # 0 /\ socks[wsRef] = "CONNECTING" /\ wire = <<>>

\* C17: a message of a type onmessage does not know, or a payload that does
\* not parse, changes nothing: isConnected, connectionStatus, isMockMode,
\* the counter, latency, the set, the refs and the pending timers are as
\* before, and the socket is in the state it was in.
C17_GarbageIsDropped ==
    [][\A s \in SockIds, m \in {"unknown", "malformed"} :
          WsMessage(s, m, 0)
          => /\ UNCHANGED <<ManagerRest, subscriptionsRef>>
             /\ \A kind \in TimerKinds : Pending(kind)' = Pending(kind)]_vars

\* A socket is open with its ping interval armed and a latency sampled, and
\* the step before has sent a ping: a message dropped now empties the wire
\* and leaves the rest.
C17_Witness ==
    /\ mounted /\ isConnected /\ connectionStatus = "connected"
    /\ wsRef # 0 /\ socks[wsRef] = "OPEN" /\ pingIntervalRef = wsRef
    /\ latency # 0 /\ wire # <<>>

\* C18: an abnormal close that finds reconnectAttemptsRef below
\* maxReconnectAttempts leaves it one higher.  Stated of the case the claim
\* names: the hook is connected and the open socket wsRef holds is closed
\* from outside.
C18_DropIsCounted ==
    [][\A s \in SockIds :
          /\ mounted /\ isConnected /\ wsRef = s /\ socks[s] = "OPEN"
          /\ AbnormalClose(s)
          /\ reconnectAttemptsRef < maxReconnectAttempts
          => reconnectAttemptsRef' = reconnectAttemptsRef + 1]_vars

\* C19: reconnectAttemptsRef is within 0..maxReconnectAttempts in every
\* state, and is 0 after every step in which a socket opens and after every
\* step that runs disconnect(): a re-run of the auto-connect effect, whose
\* cleanup calls it, and the unmount.
C19_CounterInRange ==
    /\ [](reconnectAttemptsRef \in 0..maxReconnectAttempts)
    /\ [][(\E s \in SockIds : WsOpen(s)) \/ EffectCommit \/ Unmount
             => reconnectAttemptsRef' = 0]_vars

\* A socket has opened after an open one had been dropped, and the hook is
\* connected with the counter at 0.
C19_Witness ==
    /\ link = "again" /\ mounted /\ isConnected
    /\ wsRef # 0 /\ socks[wsRef] = "OPEN"
    /\ reconnectAttemptsRef = 0

\* C20: the close event of a socket that disconnect() has closed (an open
\* socket is put in its closing handshake by disconnect() alone, and the
\* event carries code 1000) arms no reconnect timer and does not put the
\* hook in mock mode.
C20_OwnCloseIsQuiet ==
    [][\A s \in SockIds :
          /\ mounted /\ socks[s] = "CLOSING" /\ WsClosed(s, 1000)
          => /\ Pending("reconnect")' = Pending("reconnect")
             /\ isMockMode' => isMockMode]_vars

\* C21: in a mounted hook a timer is pending only in the state it belongs
\* to: a connect timeout only while the status is connecting or a socket is
\* in its handshake, a ping interval only while isConnected, a reconnect
\* timer only while the status is disconnected, a mock-latency interval only
\* while isMockMode (or until the render that follows its change is
\* committed).
C21_TimersLeaveWithState ==
    mounted =>
        /\ Pending("connect") > 0
              => connectionStatus = "connecting" \/ Connecting # {}
        /\ Pending("ping") > 0 => isConnected
        /\ Pending("reconnect") > 0 => connectionStatus = "disconnected"
        /\ Pending("mock") > 0 => isMockMode \/ rendered.isMockMode

\* C22: while the hook is connected, one ping interval is pending and no
\* more, the one pingIntervalRef holds, and it is bound to the open socket
\* that wsRef holds.
C22_OnePingOnCurrent ==
    mounted /\ isConnected =>
        /\ Pending("ping") = 1
        /\ pingIntervalRef # 0 /\ pingIntervalRef \in pingOn
        /\ socks[pingIntervalRef] = "OPEN"
        /\ wsRef = pingIntervalRef

\* C23: whenever isMockMode is true, and the committed render is the render of
\* the present isConnected and isMockMode (no effect is still to run), a
\* mock-latency interval is pending; and every value a tick of the interval
\* writes to latency is an integer of 5..34.
C23_MockModeHasInterval ==
    /\ [](/\ mounted /\ isMockMode
          /\ rendered = [isConnected |-> isConnected, isMockMode |-> isMockMode]
          => Pending("mock") >= 1)
    /\ [][\A k \in RandomDraws :
             mounted /\ MockTick(k) => latency' \in 5..34]_vars

C25_TeardownEmptiesSet ==
    [][/\ Unmount => subscriptionsRef' = {}
       /\ \A x \in subscriptionsRef \ subscriptionsRef' :
             Unsubscribe(x) \/ Unmount \/ EffectCommit]_vars

\* C26: the hook is connected and the socket wsRef holds is open; a step that
\* is neither a close or failure of a socket nor the unmount leaves the hook
\* connected, wsRef holding an open socket, and starts no probe: the hook
\* closes no open socket of its own accord and calls no connect(), not even
\* in the re-render that follows the open.
C26_OpenStaysOpen ==
    [][/\ mounted /\ mounted' /\ isConnected
       /\ wsRef # 0 /\ socks[wsRef] = "OPEN"
       /\ ~\E s \in SockIds :
             WsFailed(s) \/ WsClosed(s, 1000) \/ WsClosed(s, 1001)
       => /\ isConnected' /\ wsRef' # 0 /\ socks'[wsRef'] = "OPEN"
          /\ probes' <= probes]_vars

\* C27: at most one socket is connecting or open at any time.
C27_OneLiveSocket ==
    Cardinality({s \in SockIds : socks[s] \in {"CONNECTING", "OPEN"}}) <= 1

\* C28: an open, error or close event of a socket that wsRef does not hold
\* (a newer socket has replaced it, or disconnect() has let it go) leaves
\* isConnected, connectionStatus and isMockMode as they were, arms no
\* reconnect timer, and leaves the ping interval that pingIntervalRef holds.
C28_StaleSocketIsIgnored ==
    [][\A s \in SockIds :
          /\ mounted /\ wsRef # s
          /\ \/ WsOpen(s) \/ WsFailed(s)
             \/ WsClosed(s, 1000) \/ WsClosed(s, 1001)
          => /\ UNCHANGED <<isConnected, connectionStatus, isMockMode>>
             /\ Pending("reconnect")' = Pending("reconnect")
             /\ (pingIntervalRef = 0) = (pingIntervalRef' = 0)]_vars

\* C29: after the unmount, whose disconnect() is the hook's last call, the
\* answer, failure or timeout of a probe that was pending creates no socket,
\* arms no connect timeout and changes none of isConnected,
\* connectionStatus and isMockMode.
C29_ProbeAfterDisconnectIsDropped ==
    [][/\ ~mounted
       /\ \/ ProbeResponse("true") \/ ProbeResponse("false")
          \/ ProbeError \/ ProbeTimeout
       => /\ UNCHANGED <<socks, wsRef, connectionTimeoutRef>>
          /\ Pending("connect")' = Pending("connect")
          /\ UNCHANGED <<isConnected, connectionStatus, isMockMode>>]_vars

\* The symbols the server has been told, on the socket wsRef holds, to be
\* subscribed to.
Told == {x \in Symbols : lastCall[x] = "subscribe"}

\* C30: whenever the socket wsRef holds is open, the symbols whose last frame
\* sent on it is a subscribe are the symbols of subscriptionsRef, however
\* the calls of subscribe and unsubscribe fall around the socket's open.
C30_ServerToldTheSet ==
    wsRef # 0 /\ socks[wsRef] = "OPEN" => Told = subscriptionsRef

\* The socket wsRef holds is open and has just been sent the subscribe of X,
\* the one symbol of the set; Y, if it was ever asked for, is not told.
C30_Witness ==
    /\ "told" \in watch /\ wsRef # 0 /\ socks[wsRef] = "OPEN"
    /\ subscriptionsRef = {"X"} /\ Told = {"X"}
    /\ wire = <<[sock |-> wsRef, type |-> "subscribe", symbol |-> "X"]>>

====
